---- MODULE Spec2Model ----
(***************************************************************************)
(* Model of the slide-deck normaliser: paginator.py, ocr_backend.py,       *)
(* pptx_reader.py and the three handlers of app.py.                        *)
(*                                                                         *)
(* A Python str is a sequence of one-character strings, so that len(),     *)
(* strip(), split() and join() are computed on characters.                 *)
(***************************************************************************)
EXTENDS Integers, Sequences, FiniteSets, TLC

\* ------------------------------------------------------------------ bounds
\* longest text handed to the paginator in SpecSplit
MaxLen == 7
\* largest chars_per_page handed to the paginator in SpecSplit
MaxBudget == 5
\* most slides in an uploaded deck
MaxSlides == 2
\* most page records handed to the template filler
MaxPages == 2
\* most slides a template comes with
MaxTemplateSlides == 2
\* longest text handed to split_by_font_metrics in SpecFont
MaxFontLen == 6
\* widest and highest box in SpecFont, in pixels
MaxBoxWidth == 3
MaxBoxHeight == 8

\* ----------------------------------------------------------- str primitives
\* the characters str.strip() with no argument removes
Whitespace == {" ", "\n", "\t", "\r", "\f"}

\* the separator of text.split("\n\n") and "\n\n".join(...)
BlankLine == <<"\n", "\n">>

\* n copies of character c
Rep(c, n) == [i \in 1..n |-> c]

RECURSIVE lstrip_from(_, _)
\* index of the first non-whitespace character at or after i, Len(s)+1 if none
lstrip_from(s, i) ==
    IF i > Len(s) THEN i
    ELSE IF s[i] \in Whitespace THEN lstrip_from(s, i + 1) ELSE i

RECURSIVE rstrip_from(_, _)
\* index of the last non-whitespace character at or before i, 0 if none
rstrip_from(s, i) ==
    IF i < 1 THEN 0
    ELSE IF s[i] \in Whitespace THEN rstrip_from(s, i - 1) ELSE i

\* str.strip()
strip(s) ==
    LET a == lstrip_from(s, 1)
    IN IF a > Len(s) THEN <<>> ELSE SubSeq(s, a, rstrip_from(s, Len(s)))

\* str.find("\n\n", i) with 1-based positions; 0 when there is none
find_blank(s, i) ==
    LET hits == {j \in i..(Len(s) - 1) : s[j] = "\n" /\ s[j + 1] = "\n"}
    IN IF hits = {} THEN 0 ELSE CHOOSE j \in hits : \A k \in hits : j <= k

RECURSIVE split_from(_, _)
split_from(s, i) ==
    LET j == find_blank(s, i)
    IN IF j = 0 THEN <<SubSeq(s, i, Len(s))>>
       ELSE <<SubSeq(s, i, j - 1)>> \o split_from(s, j + 2)

\* text.split("\n\n"): left to right, occurrences do not overlap
split_blank(s) == split_from(s, 1)

RECURSIVE join_from(_, _)
join_from(parts, i) ==
    IF i > Len(parts) THEN <<>>
    ELSE IF i = Len(parts) THEN parts[i]
    ELSE parts[i] \o BlankLine \o join_from(parts, i + 1)

\* "\n\n".join(parts)
join_blank(parts) == join_from(parts, 1)

RECURSIVE flatten_from(_, _)
\* the concatenation of seqs[i], seqs[i+1], ...
flatten_from(seqs, i) ==
    IF i > Len(seqs) THEN <<>> ELSE seqs[i] \o flatten_from(seqs, i + 1)

\* ------------------------------------------------------------- paginator.py
\* [p.strip() for p in text.split("\n\n") if p.strip()]
paragraphs_of(text) ==
    LET parts == split_blank(text)
        stripped == [i \in 1..Len(parts) |-> strip(parts[i])]
    IN SelectSeq(stripped, LAMBDA p : p # <<>>)

\* mutant of page_step: a paragraph that does not fit is cut to the budget
page_step_truncating(pages, current, p, chars_per_page) ==
    IF current # <<>> /\ (Len(current) + Len(p) + 2) > chars_per_page
    THEN [pages |-> Append(pages, strip(current)),
          current |-> IF Len(p) > chars_per_page THEN SubSeq(p, 1, chars_per_page) ELSE p]
    ELSE [pages |-> pages,
          current |-> IF current # <<>> THEN current \o BlankLine \o p ELSE p]

\* mutant of page_step: the page is closed one paragraph late
page_step_late(pages, current, p, chars_per_page) ==
    IF current # <<>> /\ Len(current) > chars_per_page
    THEN [pages |-> Append(pages, strip(current)), current |-> p]
    ELSE [pages |-> pages,
          current |-> IF current # <<>> THEN current \o BlankLine \o p ELSE p]

\* mutant of page_step: a paragraph that exactly fills the budget opens a new page
page_step_eager(pages, current, p, chars_per_page) ==
    IF current # <<>> /\ (Len(current) + Len(p) + 2) >= chars_per_page
    THEN [pages |-> Append(pages, strip(current)), current |-> p]
    ELSE [pages |-> pages,
          current |-> IF current # <<>> THEN current \o BlankLine \o p ELSE p]

\* one iteration of the for loop of split_by_paragraphs
page_step(pages, current, p, chars_per_page) ==
    IF current # <<>> /\ (Len(current) + Len(p) + 2) > chars_per_page
    THEN [pages |-> Append(pages, strip(current)), current |-> p]
    ELSE [pages |-> pages,
          current |-> IF current # <<>> THEN current \o BlankLine \o p ELSE p]

RECURSIVE page_loop(_, _, _, _, _)
page_loop(ps, i, pages, current, chars_per_page) ==
    IF i > Len(ps) THEN [pages |-> pages, current |-> current]
    ELSE LET st == page_step(pages, current, ps[i], chars_per_page)
         IN page_loop(ps, i + 1, st.pages, st.current, chars_per_page)

split_by_paragraphs(text, chars_per_page) ==
    IF text = <<>> THEN << <<>> >>
    ELSE LET st == page_loop(paragraphs_of(text), 1, <<>>, <<>>, chars_per_page)
             pages == IF strip(st.current) # <<>>
                      THEN Append(st.pages, strip(st.current))
                      ELSE st.pages
         IN IF pages = <<>> THEN << <<>> >> ELSE pages

\* the default of split_by_paragraphs' parameter chars_per_page
DEFAULT_CHARS_PER_PAGE == 1100

\* split_by_font_metrics as generate_and_download calls it, with
\* box_width_px = box_height_px = None: lines 73-77, where no font is loaded
split_by_font_metrics_unboxed(text) ==
    IF text = <<>> THEN << <<>> >>
    ELSE split_by_paragraphs(text, DEFAULT_CHARS_PER_PAGE)

\* ----------------------------------------------------------- ocr_backend.py
\* a returned {"text": ..., "lines": ...} (the lines are not modelled) or a raised exception
Returned(text) == [ok |-> TRUE, text |-> text, error |-> ""]
Raised(error) == [ok |-> FALSE, text |-> <<>>, error |-> error]

\* what google_client.document_text_detection does with an initialised client
CloudOutcomes(texts) ==
    {Raised("vision: transport error"), Raised("vision: response.error.message")}
        \cup {Returned(t) : t \in texts}

\* what pytesseract does
LocalOutcomes(texts) ==
    {Raised("pytesseract is required for tesseract OCR"), Raised("cannot identify image file")}
        \cup {Returned(t) : t \in texts}

\* _google_vision_ocr_bytes: raises before any request when the client is None
google_vision_ocr_bytes(client, cloud) ==
    IF client = "None" THEN Raised("Google Vision client not initialized") ELSE cloud

\* _tesseract_ocr_bytes
tesseract_ocr_bytes(local) == local

\* mutant of fallback_result: the local error replaces the cloud error
fallback_result_local_error(g, t) == t

\* mutant of fallback_result: the cloud error is raised without trying tesseract's result
fallback_result_no_fallback(g, t) == g

\* the handler of "except Exception as e" in ocr_image: tesseract's result, or raise e
fallback_result(g, t) == IF t.ok THEN t ELSE g

\* ocr_image: the value returned or the exception raised, and the recognisers called
ocr_image(image_bytes, backend, client, cloud, local) ==
    IF backend = "google_vision"
    THEN LET g == google_vision_ocr_bytes(client, cloud)
         IN IF g.ok
            THEN [ret |-> g,
                  calls |-> <<[fn |-> "google_vision", image |-> image_bytes, out |-> g]>>]
            ELSE LET t == tesseract_ocr_bytes(local)
                 IN [ret |-> fallback_result(g, t),
                     calls |-> <<[fn |-> "google_vision", image |-> image_bytes, out |-> g],
                                 [fn |-> "tesseract", image |-> image_bytes, out |-> t]>>]
    ELSE IF backend = "tesseract"
    THEN LET t == tesseract_ocr_bytes(local)
         IN [ret |-> t,
             calls |-> <<[fn |-> "tesseract", image |-> image_bytes, out |-> t]>>]
    ELSE [ret |-> Raised("Unknown OCR backend"), calls |-> <<>>]

\* ----------------------------------------------------------- more str
Digits == <<"0", "1", "2", "3", "4", "5", "6", "7", "8", "9">>

RECURSIVE str_int(_)
\* str(n) for n >= 0
str_int(n) == IF n < 10 THEN <<Digits[n + 1]>> ELSE str_int(n \div 10) \o <<Digits[(n % 10) + 1]>>

\* the line boundaries of str.splitlines() that the texts here can hold
LineBreaks == {"\n", "\r", "\f"}

\* position of the first line boundary at or after i; 0 when there is none
find_break(s, i) ==
    LET hits == {j \in i..Len(s) : s[j] \in LineBreaks}
    IN IF hits = {} THEN 0 ELSE CHOOSE j \in hits : \A k \in hits : j <= k

RECURSIVE splitlines_from(_, _)
splitlines_from(s, i) ==
    IF i > Len(s) THEN <<>>
    ELSE LET j == find_break(s, i)
         IN IF j = 0 THEN <<SubSeq(s, i, Len(s))>>
            ELSE <<SubSeq(s, i, j - 1)>> \o
                 splitlines_from(s, IF s[j] = "\r" /\ j < Len(s) /\ s[j + 1] = "\n"
                                    THEN j + 2 ELSE j + 1)

\* str.splitlines()
splitlines(s) == splitlines_from(s, 1)

RECURSIVE join_nl_from(_, _)
join_nl_from(parts, i) ==
    IF i > Len(parts) THEN <<>>
    ELSE IF i = Len(parts) THEN parts[i]
    ELSE parts[i] \o <<"\n">> \o join_nl_from(parts, i + 1)

\* "\n".join(parts)
join_nl(parts) == join_nl_from(parts, 1)

\* f"Slide {slide_idx + 1}"
slide_label(slide_idx) == <<"S", "l", "i", "d", "e", " ">> \o str_int(slide_idx + 1)

\* ------------------------------------ paginator.py: split_by_font_metrics
\* textwrap.TextWrapper(width=200)
WRAP_WIDTH == 200

\* TextWrapper.wrap(para) for a paragraph of at most WRAP_WIDTH characters with
\* no tab: every whitespace character becomes a space, the white space at the
\* end is dropped and the text is one rough line; a blank paragraph gives none
wrap(para) ==
    LET spaced == [k \in 1..Len(para) |-> IF para[k] \in Whitespace THEN " " ELSE para[k]]
        last == rstrip_from(spaced, Len(spaced))
    IN IF last = 0 THEN <<>> ELSE <<SubSeq(spaced, 1, last)>>

\* position of the first " " at or after i; 0 when there is none
find_space(s, i) ==
    LET hits == {j \in i..Len(s) : s[j] = " "}
    IN IF hits = {} THEN 0 ELSE CHOOSE j \in hits : \A k \in hits : j <= k

RECURSIVE split_space_from(_, _)
split_space_from(s, i) ==
    LET j == find_space(s, i)
    IN IF j = 0 THEN <<SubSeq(s, i, Len(s))>>
       ELSE <<SubSeq(s, i, j - 1)>> \o split_space_from(s, j + 1)

\* r.split(" ")
split_space(s) == split_space_from(s, 1)

\* font.getsize(test)[0] for a fixed-pitch font
getsize_width(test, char_px) == Len(test) * char_px

\* lines 44-54: one iteration of "for w in words"
refine_step(st, w, char_px, max_width_px) ==
    IF st.cur = <<>> THEN [st EXCEPT !.cur = w]
    ELSE LET test == st.cur \o <<" ">> \o w
         IN IF getsize_width(test, char_px) <= max_width_px
            THEN [st EXCEPT !.cur = test]
            ELSE [lines |-> Append(st.lines, st.cur), cur |-> w]

RECURSIVE refine_words(_, _, _, _, _)
refine_words(words, i, st, char_px, max_width_px) ==
    IF i > Len(words) THEN st
    ELSE refine_words(words, i + 1, refine_step(st, words[i], char_px, max_width_px),
                      char_px, max_width_px)

\* lines 42-56: the lines of one rough line, appended to lines
refine_rough(lines, r, char_px, max_width_px) ==
    LET st == refine_words(split_space(r), 1, [lines |-> lines, cur |-> <<>>],
                           char_px, max_width_px)
    IN IF st.cur # <<>> THEN Append(st.lines, st.cur) ELSE st.lines

RECURSIVE refine_roughs(_, _, _, _, _)
refine_roughs(lines, rough, i, char_px, max_width_px) ==
    IF i > Len(rough) THEN lines
    ELSE refine_roughs(refine_rough(lines, rough[i], char_px, max_width_px), rough, i + 1,
                       char_px, max_width_px)

RECURSIVE measure_paragraphs(_, _, _, _, _)
\* lines 36-58: "for para in paragraphs"; a paragraph's lines end with an empty line
measure_paragraphs(paragraphs, i, lines, char_px, max_width_px) ==
    IF i > Len(paragraphs) THEN lines
    ELSE IF strip(paragraphs[i]) = <<>>
    THEN measure_paragraphs(paragraphs, i + 1, lines, char_px, max_width_px)
    ELSE measure_paragraphs(
             paragraphs, i + 1,
             Append(refine_roughs(lines, wrap(paragraphs[i]), 1, char_px, max_width_px),
                    <<>>),
             char_px, max_width_px)

\* lines 31-59
measure_text_lines(text, char_px, max_width_px) ==
    measure_paragraphs(split_blank(text), 1, <<>>, char_px, max_width_px)

\* "\n".join(current).strip()
page_of_slots(current) == strip(join_nl(current))

\* mutant of height_step: a slot is added to the page that it overflows
height_step_after(st, line, line_height, box_height_px) ==
    LET added == [st EXCEPT !.current = Append(st.current, line),
                            !.current_h = st.current_h + line_height]
    IN IF added.current_h > box_height_px
       THEN [slots |-> Append(st.slots, added.current), current |-> <<>>, current_h |-> 0]
       ELSE added

\* lines 90-106: one iteration of "for line in lines"; slots holds the list
\* current of every page closed so far
height_step(st, line, line_height, box_height_px) ==
    LET needed == line_height
        closed == IF st.current_h + needed > box_height_px /\ st.current # <<>>
                  THEN [slots |-> Append(st.slots, st.current), current |-> <<>>,
                        current_h |-> 0]
                  ELSE st
    IN [closed EXCEPT !.current = Append(closed.current, line),
                      !.current_h = closed.current_h + needed]

RECURSIVE height_loop(_, _, _, _, _)
height_loop(lines, i, st, line_height, box_height_px) ==
    IF i > Len(lines) THEN st
    ELSE height_loop(lines, i + 1, height_step(st, lines[i], line_height, box_height_px),
                     line_height, box_height_px)

\* lines 87-108: the line slots of every page
page_slots(lines, line_height, box_height_px) ==
    LET st == height_loop(lines, 1, [slots |-> <<>>, current |-> <<>>, current_h |-> 0],
                          line_height, box_height_px)
    IN IF st.current # <<>> THEN Append(st.slots, st.current) ELSE st.slots

\* lines 62-111; a box is known when neither box_width_px nor box_height_px is
\* None; font is the loaded font: the width of a character, ascent and descent
split_by_font_metrics(text, font, box_known, box_width_px, box_height_px) ==
    IF text = <<>> THEN [pages |-> << <<>> >>, slots |-> <<>>]
    ELSE IF ~box_known
    THEN [pages |-> split_by_font_metrics_unboxed(text), slots |-> <<>>]
    ELSE LET lines == measure_text_lines(text, font.char_px, box_width_px)
             line_height == font.ascent + font.descent + 2
             slots == page_slots(lines, line_height, box_height_px)
             pages == [k \in 1..Len(slots) |-> page_of_slots(slots[k])]
         IN [pages |-> IF pages = <<>> THEN << <<>> >> ELSE pages, slots |-> slots]

\* ----------------------------------------------------------- pptx_reader.py
\* PP_PLACEHOLDER.TITLE, the only placeholder type extract_text_shapes looks at
PP_TITLE == 1
\* PP_PLACEHOLDER.BODY
PP_BODY == 2

\* the attributes of a python-pptx shape that extract_text_shapes reads
TitlePlaceholder(text) ==
    [is_placeholder |-> TRUE, ph_type |-> PP_TITLE, has_text_frame |-> TRUE,
     text |-> text, is_picture |-> FALSE, blob |-> ""]
BodyPlaceholder(text) ==
    [is_placeholder |-> TRUE, ph_type |-> PP_BODY, has_text_frame |-> TRUE,
     text |-> text, is_picture |-> FALSE, blob |-> ""]
TextBox(text) ==
    [is_placeholder |-> FALSE, ph_type |-> 0, has_text_frame |-> TRUE,
     text |-> text, is_picture |-> FALSE, blob |-> ""]
\* the placeholder types of a slide's footer area, as placeholder_format.type gives them
PP_SLIDE_NUMBER == 13
PP_FOOTER == 15
PP_DATE == 16
\* a footer, date or slide-number placeholder: a placeholder with a text frame
FooterAreaPlaceholder(ph_type, text) ==
    [is_placeholder |-> TRUE, ph_type |-> ph_type, has_text_frame |-> TRUE,
     text |-> text, is_picture |-> FALSE, blob |-> ""]
\* an embedded picture: shape.image gives its blob
Picture(blob) ==
    [is_placeholder |-> FALSE, ph_type |-> 0, has_text_frame |-> FALSE,
     text |-> <<>>, is_picture |-> TRUE, blob |-> blob]

\* one iteration of "for shape in slide.shapes"
extract_shape(acc, shape) ==
    LET title_text == IF shape.is_placeholder /\ shape.ph_type = PP_TITLE /\ shape.has_text_frame
                      THEN strip(shape.text) ELSE acc.title_text
        text == strip(shape.text)
        has_text == shape.has_text_frame /\ text # <<>>
    IN [title_text |-> title_text,
        body_text_parts |-> IF has_text /\ text # title_text
                            THEN Append(acc.body_text_parts, text)
                            ELSE acc.body_text_parts,
        text_shapes |-> IF has_text THEN Append(acc.text_shapes, text) ELSE acc.text_shapes,
        image_shapes |-> IF shape.is_picture THEN Append(acc.image_shapes, shape.blob)
                         ELSE acc.image_shapes]

RECURSIVE extract_shapes(_, _, _)
extract_shapes(shapes, i, acc) ==
    IF i > Len(shapes) THEN acc
    ELSE extract_shapes(shapes, i + 1, extract_shape(acc, shapes[i]))

\* the meta dictionary of one slide (the raw "shapes" list is left out)
extract_slide(slide_idx, shapes) ==
    LET acc == extract_shapes(shapes, 1,
                   [title_text |-> <<>>, body_text_parts |-> <<>>,
                    text_shapes |-> <<>>, image_shapes |-> <<>>])
    IN [slide_index |-> slide_idx,
        title_text |-> IF acc.title_text # <<>> THEN acc.title_text ELSE slide_label(slide_idx),
        body_text |-> join_blank(acc.body_text_parts),
        text_shapes |-> acc.text_shapes,
        image_shapes |-> acc.image_shapes]

\* extract_text_shapes: slide_index counts from 0
extract_text_shapes(deck) == [i \in 1..Len(deck) |-> extract_slide(i - 1, deck[i])]

\* ------------------------------------------------ app.py: analyze_and_preview
\* the threshold of "len(body) < 20"
MIN_BODY_LENGTH == 20

\* lines 136-148: title and provisional body before the text shapes are joined
resolve_title(meta) ==
    IF meta.title_text # <<>>
    THEN [title |-> meta.title_text, body |-> <<>>]
    ELSE IF meta.text_shapes # <<>>
    THEN LET first_text == strip(meta.text_shapes[1])
             first_line == IF first_text # <<>> THEN strip(splitlines(first_text)[1]) ELSE <<>>
             remainder == strip(join_nl(Tail(splitlines(first_text))))
         IN [title |-> IF first_line # <<>> THEN first_line ELSE slide_label(meta.slide_index),
             body |-> remainder]
    ELSE [title |-> <<>>, body |-> <<>>]

\* mutant of body_parts_of: the run that equals the title is kept
body_parts_keep_title(text_shapes, title) ==
    SelectSeq([i \in 1..Len(text_shapes) |-> strip(text_shapes[i])], LAMBDA txt : txt # <<>>)

\* lines 153-161: the stripped non-empty text shapes that are not the title
body_parts_of(text_shapes, title) ==
    SelectSeq([i \in 1..Len(text_shapes) |-> strip(text_shapes[i])],
              LAMBDA txt : txt # <<>> /\ ~(title # <<>> /\ txt = title))

\* lines 136-163: title and body before OCR
resolve(meta) ==
    LET r == resolve_title(meta)
        body_parts == body_parts_of(meta.text_shapes, r.title)
    IN [title |-> r.title,
        body |-> IF meta.text_shapes # <<>> /\ body_parts # <<>>
                 THEN strip(join_blank(body_parts)) ELSE r.body]

\* lines 166-170
needs_ocr(ocr_scope, body) ==
    IF ocr_scope = "Only" /\ (body = <<>> \/ Len(body) < MIN_BODY_LENGTH) THEN TRUE
    ELSE ocr_scope = "Always"

\* the image payloads preprocessor.preprocess_image can decode
Decodable == {"png-1", "png-2", "png-3"}

\* preprocessor.preprocess_image: the processed PNG of a decodable image, else an exception
preprocess_image(img_bytes) ==
    IF img_bytes \in Decodable
    THEN [ok |-> TRUE, bytes |-> <<"preprocessed", img_bytes>>]
    ELSE [ok |-> FALSE, bytes |-> <<>>]

\* the text a recogniser finds in a picture: some pictures hold none, and a
\* recogniser returns the text with the white space around it
text_in(img_bytes) ==
    IF img_bytes = "png-2" THEN <<"t">>
    ELSE IF img_bytes = "wmf-1" THEN <<" ", "u", "\n">>
    ELSE IF img_bytes = "png-3" THEN <<"\f">>
    ELSE <<>>

\* what the two recognisers do for a picture: env says which of them is reachable
cloud_outcome(img_bytes, env) ==
    IF env.cloud_up THEN Returned(text_in(img_bytes)) ELSE Raised("vision: transport error")
local_outcome(img_bytes, env) ==
    IF env.local_up THEN Returned(text_in(img_bytes))
    ELSE Raised("pytesseract is required for tesseract OCR")

\* mutant of ocr_one_image: a preprocessing failure skips the image
ocr_one_image_skip_on_preprocess_failure(acc, slide_idx, img_bytes, backend, client, env) ==
    IF img_bytes = "" \/ ~preprocess_image(img_bytes).ok THEN acc
    ELSE LET pre == preprocess_image(img_bytes)
             r == ocr_image(pre.bytes, backend, client, cloud_outcome(img_bytes, env),
                            local_outcome(img_bytes, env)).ret
         IN [ocr_texts |-> IF r.ok /\ r.text # <<>> THEN Append(acc.ocr_texts, strip(r.text))
                           ELSE acc.ocr_texts,
             warnings |-> IF r.ok THEN acc.warnings
                          ELSE Append(acc.warnings, [slide |-> slide_idx, error |-> r.error]),
             calls |-> Append(acc.calls, [slide |-> slide_idx, image |-> img_bytes,
                                          sent |-> pre.bytes, ret |-> r])]

\* mutant of ocr_one_image: the recognised text is appended as returned, blank or not
ocr_one_image_raw_text(acc, slide_idx, img_bytes, backend, client, env) ==
    IF img_bytes = "" THEN acc
    ELSE LET pre == preprocess_image(img_bytes)
             sent == IF pre.ok THEN pre.bytes ELSE img_bytes
             r == ocr_image(sent, backend, client, cloud_outcome(img_bytes, env),
                            local_outcome(img_bytes, env)).ret
         IN [ocr_texts |-> IF r.ok THEN Append(acc.ocr_texts, r.text) ELSE acc.ocr_texts,
             warnings |-> IF r.ok THEN acc.warnings
                          ELSE Append(acc.warnings, [slide |-> slide_idx, error |-> r.error]),
             calls |-> Append(acc.calls, [slide |-> slide_idx, image |-> img_bytes,
                                          sent |-> sent, ret |-> r])]

\* lines 177-191: one iteration of "for img_meta in image_shapes"
ocr_one_image(acc, slide_idx, img_bytes, backend, client, env) ==
    IF img_bytes = "" THEN acc
    ELSE LET pre == preprocess_image(img_bytes)
             sent == IF pre.ok THEN pre.bytes ELSE img_bytes
             r == ocr_image(sent, backend, client, cloud_outcome(img_bytes, env),
                            local_outcome(img_bytes, env)).ret
         IN [ocr_texts |-> IF r.ok /\ r.text # <<>> THEN Append(acc.ocr_texts, strip(r.text))
                           ELSE acc.ocr_texts,
             warnings |-> IF r.ok THEN acc.warnings
                          ELSE Append(acc.warnings, [slide |-> slide_idx, error |-> r.error]),
             calls |-> Append(acc.calls, [slide |-> slide_idx, image |-> img_bytes,
                                          sent |-> sent, ret |-> r])]

RECURSIVE ocr_images(_, _, _, _, _, _, _)
ocr_images(image_shapes, i, acc, slide_idx, backend, client, envs) ==
    IF i > Len(image_shapes) THEN acc
    ELSE ocr_images(image_shapes, i + 1,
                    ocr_one_image(acc, slide_idx, image_shapes[i], backend, client, envs[i]),
                    slide_idx, backend, client, envs)

\* lines 172-193: the OCR pass over one slide's pictures; envs[i] is what the
\* recognisers do for picture i
ocr_pass(image_shapes, slide_idx, backend, client, envs) ==
    LET acc == ocr_images(image_shapes, 1,
                          [ocr_texts |-> <<>>, warnings |-> <<>>, calls |-> <<>>],
                          slide_idx, backend, client, envs)
    IN [ocr_text |-> IF acc.ocr_texts # <<>> THEN join_blank(acc.ocr_texts) ELSE <<>>,
        warnings |-> acc.warnings,
        calls |-> acc.calls]

\* mutant of merge_ocr: the OCR text is appended whatever the body's length
merge_ocr_always(body, ocr_text) ==
    IF ocr_text # <<>>
    THEN (IF body # <<>> THEN strip(body \o BlankLine \o ocr_text) ELSE ocr_text)
    ELSE body

\* lines 199-200
merge_ocr(body, ocr_text) ==
    IF (body = <<>> \/ Len(body) < MIN_BODY_LENGTH) /\ ocr_text # <<>>
    THEN (IF body # <<>> THEN strip(body \o BlankLine \o ocr_text) ELSE ocr_text)
    ELSE body

\* lines 131-207: one iteration of "for meta in slides_meta"
analyze_slide(meta, use_ocr, ocr_scope, backend, client, envs) ==
    LET r == resolve(meta)
        no_ocr == [ocr_text |-> <<>>, warnings |-> <<>>, calls |-> <<>>]
        o == IF use_ocr /\ needs_ocr(ocr_scope, r.body)
             THEN ocr_pass(meta.image_shapes, meta.slide_index, backend, client, envs)
             ELSE no_ocr
    IN [title |-> r.title, pre_body |-> r.body, ocr_text |-> o.ocr_text,
        warnings |-> o.warnings, calls |-> o.calls,
        body |-> merge_ocr(r.body, o.ocr_text)]

\* --------------------------------------------- app.py: generate_and_download
\* DEFAULT_CONTINUATION_SUFFIX = "(CONTD...)"
DEFAULT_CONTINUATION_SUFFIX == <<"(", "C", "O", "N", "T", "D", ".", ".", ".", ")">>

\* lines 286-302: the page texts of one body
paginate(body, font_uploaded, paragraph_chars_per_page) ==
    IF font_uploaded THEN split_by_font_metrics_unboxed(body)
    ELSE split_by_paragraphs(body, paragraph_chars_per_page)

\* mutant of page_title: the default suffix whatever the sidebar says
page_title_default_suffix(title, i, continuation_style) ==
    IF i = 0 THEN title ELSE title \o <<" ">> \o DEFAULT_CONTINUATION_SUFFIX

\* mutant of page_title: every page but the last carries the suffix
page_title_first_too(title, i, continuation_style) ==
    IF i = 1 THEN title ELSE title \o <<" ">> \o continuation_style

\* line 305: title if i == 0 else f"{title} {continuation_style}"
page_title(title, i, continuation_style) ==
    IF i = 0 THEN title ELSE title \o <<" ">> \o continuation_style

\* lines 304-306: the page records of one slide, each with the slide and the
\* ordinal i of enumerate() it was built from
slide_pages(slide_idx, title, pages_texts, continuation_style) ==
    [k \in 1..Len(pages_texts) |->
        [title |-> page_title(title, k - 1, continuation_style),
         body |-> pages_texts[k],
         slide |-> slide_idx,
         ordinal |-> k - 1]]

RECURSIVE build_pages(_, _, _, _, _, _)
\* lines 279-306: "for meta in slides_meta"
build_pages(metas, the_titles, the_bodies, font_uploaded, chars_per_page, suffix) ==
    IF metas = <<>> THEN <<>>
    ELSE LET idx == Head(metas).slide_index
             title == IF idx + 1 \in DOMAIN the_titles THEN the_titles[idx + 1]
                      ELSE slide_label(idx)
             body == IF idx + 1 \in DOMAIN the_bodies THEN the_bodies[idx + 1] ELSE <<>>
         IN slide_pages(idx, title, paginate(body, font_uploaded, chars_per_page), suffix)
            \o build_pages(Tail(metas), the_titles, the_bodies, font_uploaded,
                           chars_per_page, suffix)

\* ------------------------------------------ app.py: render_preview_and_edit
\* mutant of rerun_merge: the texts are appended to a short body only, as in the analysis
rerun_merge_short_only(new_body, ocr_texts) ==
    IF ocr_texts # <<>> /\ Len(new_body) < MIN_BODY_LENGTH
    THEN (IF new_body # <<>> THEN strip(new_body \o BlankLine \o join_blank(ocr_texts))
          ELSE join_blank(ocr_texts))
    ELSE new_body

\* lines 254-259: new_body after the button's OCR pass
rerun_merge(new_body, ocr_texts) ==
    IF ocr_texts # <<>>
    THEN (IF new_body # <<>> THEN strip(new_body \o BlankLine \o join_blank(ocr_texts))
          ELSE join_blank(ocr_texts))
    ELSE new_body

\* lines 223-266: one iteration of "for meta in slides_meta"; new_title and
\* new_body are what the two fields of the slide hold, pressed says whether the
\* slide's "Re-run OCR on images for this slide" button was clicked; lines
\* 240-253 repeat the loop of lines 177-191
review_slide(meta, new_title, new_body, pressed, backend, client, envs) ==
    LET none == [ocr_texts |-> <<>>, warnings |-> <<>>, calls |-> <<>>]
        acc == IF pressed
               THEN ocr_images(meta.image_shapes, 1, none, meta.slide_index, backend, client,
                               envs)
               ELSE none
    IN [title |-> new_title,
        body |-> IF pressed THEN rerun_merge(new_body, acc.ocr_texts) ELSE new_body,
        warnings |-> acc.warnings,
        calls |-> acc.calls]

RECURSIVE review_slides(_, _, _, _, _, _, _)
\* lines 222-266: "for meta in slides_meta"; pressed_idx is the slide_index of
\* the button clicked, -1 when the run comes from no such button
review_slides(metas, new_titles, new_bodies, pressed_idx, backend, client, envs) ==
    IF metas = <<>> THEN <<>>
    ELSE <<review_slide(Head(metas), Head(new_titles), Head(new_bodies),
                        Head(metas).slide_index = pressed_idx, backend, client, envs)>>
         \o review_slides(Tail(metas), Tail(new_titles), Tail(new_bodies), pressed_idx,
                          backend, client, envs)

\* ------------------------------------------------------- template_filler.py
\* the members of pptx.enum.shapes.PP_PLACEHOLDER that template_filler.py names
PP_CENTER_TITLE == 3
\* PP_PLACEHOLDER.CONTENT where the installed enumeration has such a member: the
\* type of a content placeholder, which the library itself names OBJECT
PP_CONTENT == 7
\* stands for a placeholder whose placeholder_format.type raises
PP_UNTYPED == 0

\* evaluating (PP_PLACEHOLDER.BODY, PP_PLACEHOLDER.CONTENT): the tuple, or an
\* AttributeError when the installed enumeration has no member CONTENT
body_types(enum_has_content) ==
    IF enum_has_content THEN [ok |-> TRUE, types |-> {PP_BODY, PP_CONTENT}]
    ELSE [ok |-> FALSE, types |-> {}]

\* lines 29-36: has_title and has_body after one placeholder of a layout
layout_flags_step(flags, ph_type, enum_has_content) ==
    IF ph_type = PP_UNTYPED THEN flags
    ELSE LET has_title == flags.has_title \/ ph_type \in {PP_TITLE, PP_CENTER_TITLE}
             bt == body_types(enum_has_content)
         IN [has_title |-> has_title,
             has_body |-> flags.has_body \/ (bt.ok /\ ph_type \in bt.types)]

RECURSIVE layout_flags(_, _, _, _)
\* lines 27-36: "for ph in layout.placeholders"
layout_flags(placeholders, i, flags, enum_has_content) ==
    IF i > Len(placeholders) THEN flags
    ELSE layout_flags(placeholders, i + 1,
                      layout_flags_step(flags, placeholders[i], enum_has_content),
                      enum_has_content)

\* mutant of layout_scan: a layout with a title placeholder is enough
RECURSIVE layout_scan_title_only(_, _, _)
layout_scan_title_only(slide_layouts, idx, enum_has_content) ==
    IF idx >= Len(slide_layouts) THEN 0
    ELSE LET f == layout_flags(slide_layouts[idx + 1], 1,
                               [has_title |-> FALSE, has_body |-> FALSE], enum_has_content)
         IN IF f.has_title THEN idx
            ELSE layout_scan_title_only(slide_layouts, idx + 1, enum_has_content)

RECURSIVE layout_scan(_, _, _)
\* lines 26-39: "for idx, layout in enumerate(prs.slide_layouts)", then return 0
layout_scan(slide_layouts, idx, enum_has_content) ==
    IF idx >= Len(slide_layouts) THEN 0
    ELSE LET f == layout_flags(slide_layouts[idx + 1], 1,
                               [has_title |-> FALSE, has_body |-> FALSE], enum_has_content)
         IN IF f.has_title /\ f.has_body THEN idx
            ELSE layout_scan(slide_layouts, idx + 1, enum_has_content)

\* lines 20-39; the index counts from 0 as in the code
find_layout_index_with_title_and_body(slide_layouts, enum_has_content) ==
    layout_scan(slide_layouts, 0, enum_has_content)

\* para.startswith(prefix)
startswith(s, prefix) ==
    /\ Len(s) >= Len(prefix)
    /\ SubSeq(s, 1, Len(prefix)) = prefix

\* lines 81-85: the text of one body paragraph, a leading "- " or "* " removed
paragraph_text(para) ==
    IF startswith(para, <<"-", " ">>) \/ startswith(para, <<"*", " ">>)
    THEN strip(SubSeq(para, 3, Len(para)))
    ELSE para

\* lines 78-86 and 106-114: the paragraphs written into the body's text frame
body_paragraphs(body_text) ==
    LET ps == paragraphs_of(body_text)
    IN [k \in 1..Len(ps) |-> paragraph_text(ps[k])]

\* lines 63-89: which placeholders of the new slide receive the title and the body
fill_step(filled, ph_type, enum_has_content) ==
    IF ph_type = PP_UNTYPED THEN filled
    ELSE IF ph_type \in {PP_TITLE, PP_CENTER_TITLE} /\ ~filled.title_filled
    THEN [filled EXCEPT !.title_filled = TRUE]
    ELSE LET bt == body_types(enum_has_content)
         IN IF bt.ok /\ ph_type \in bt.types /\ ~filled.body_filled
            THEN [filled EXCEPT !.body_filled = TRUE]
            ELSE filled

RECURSIVE fill_steps(_, _, _, _)
fill_steps(placeholders, i, filled, enum_has_content) ==
    IF i > Len(placeholders) THEN filled
    ELSE fill_steps(placeholders, i + 1,
                    fill_step(filled, placeholders[i], enum_has_content), enum_has_content)

\* lines 55-114: the slide after _fill_placeholders; a text not put into a
\* placeholder goes into a new text box
fill_placeholders(layout_idx, placeholders, title_text, body_text, enum_has_content) ==
    LET filled == fill_steps(placeholders, 1,
                             [title_filled |-> FALSE, body_filled |-> FALSE],
                             enum_has_content)
    IN [kind |-> "page",
        layout |-> layout_idx,
        title |-> title_text,
        title_in |-> IF filled.title_filled THEN "placeholder" ELSE "textbox",
        body |-> body_paragraphs(body_text),
        body_in |-> IF filled.body_filled THEN "placeholder" ELSE "textbox"]

\* a slide the template came with
template_slide(name) ==
    [kind |-> "template", layout |-> 0, title |-> name, title_in |-> "placeholder",
     body |-> <<>>, body_in |-> "placeholder"]

\* lines 131-133: every sldId is removed from the slide list
remove_slides(sldIdLst) == <<>>

\* Presentation(): the layouts of the library's default template; index 6 is "Blank"
DefaultLayouts ==
    << <<PP_CENTER_TITLE, 4>>, <<PP_TITLE, 7>>, <<PP_TITLE, PP_BODY>>, <<PP_TITLE, 7, 7>>,
       <<PP_TITLE, PP_BODY, 7, PP_BODY, 7>>, <<PP_TITLE>>, <<>>, <<PP_TITLE, 7, PP_BODY>>,
       <<PP_TITLE, 18, PP_BODY>>, <<PP_TITLE, 5>>, <<6, 5>> >>

\* mutant of add_pages: the last page record is dropped
RECURSIVE add_pages_drop_last(_, _, _, _, _, _)
add_pages_drop_last(slides, slide_layouts, layout_idx, the_pages, i, enum_has_content) ==
    IF i >= Len(the_pages) THEN slides
    ELSE add_pages_drop_last(
             Append(slides, fill_placeholders(layout_idx, slide_layouts[layout_idx + 1],
                                              the_pages[i].title, the_pages[i].body,
                                              enum_has_content)),
             slide_layouts, layout_idx, the_pages, i + 1, enum_has_content)

RECURSIVE add_pages(_, _, _, _, _, _)
\* lines 135-137 and 141-144: "for p in pages": add a slide and fill it
add_pages(slides, slide_layouts, layout_idx, the_pages, i, enum_has_content) ==
    IF i > Len(the_pages) THEN slides
    ELSE add_pages(
             Append(slides, fill_placeholders(layout_idx, slide_layouts[layout_idx + 1],
                                              the_pages[i].title, the_pages[i].body,
                                              enum_has_content)),
             slide_layouts, layout_idx, the_pages, i + 1, enum_has_content)

\* template_bytes is None or b"": "if template_bytes" is false
NoTemplate == {"None", "empty"}
\* an uploaded template: its slides and its layouts, each layout the types of its placeholders
Template(template_slides, slide_layouts) ==
    [bytes |-> "pptx", slides |-> template_slides, layouts |-> slide_layouts]
Absent(how) == [bytes |-> how, slides |-> <<>>, layouts |-> <<>>]

\* lines 117-148: the presentation that is saved
fill_template_with_pages(template_bytes, the_pages, enum_has_content) ==
    IF template_bytes.bytes \notin NoTemplate
    THEN LET kept == remove_slides(template_bytes.slides)
             layout_idx == find_layout_index_with_title_and_body(template_bytes.layouts,
                                                                 enum_has_content)
         IN [slides |-> add_pages(kept, template_bytes.layouts, layout_idx, the_pages, 1,
                                  enum_has_content),
             layouts |-> template_bytes.layouts,
             layout_idx |-> layout_idx]
    ELSE LET layout_idx == IF Len(DefaultLayouts) > 6 THEN 6 ELSE 0
         IN [slides |-> add_pages(<<>>, DefaultLayouts, layout_idx, the_pages, 1,
                                  enum_has_content),
             layouts |-> DefaultLayouts,
             layout_idx |-> layout_idx]

\* ------------------------------------------------------------------- state
VARIABLES
    pc,             \* which call or handler ran last
    arg_text,       \* SpecSplit: the text argument
    arg_budget,     \* SpecSplit: the chars_per_page argument
    ret_pages,      \* SpecSplit: the value returned
    google_client,  \* ocr_backend.google_client: "None" or the initialised client
    oc_args,        \* SpecOcr: image_bytes and backend handed to ocr_image
    oc_env,         \* SpecOcr: what the two recognisers do when called
    oc_ret,         \* SpecOcr: what ocr_image returned or raised
    oc_calls,       \* SpecOcr: the recogniser calls ocr_image made
    input_ppt,      \* the uploaded deck: a sequence of slides, each a sequence of shapes
    slides_meta,    \* st.session_state["slides_meta"]
    titles,         \* st.session_state["titles"], slide_index -> title
    bodies,         \* st.session_state["bodies"], slide_index -> body
    an_inputs,      \* analyze_and_preview: use_ocr, ocr_scope, ocr_backend_choice of the run
    an_locals,      \* analyze_and_preview: per slide, body before OCR and ocr_text
    an_calls,       \* analyze_and_preview: the ocr_image calls made, in order
    an_warnings,    \* analyze_and_preview: the st.warning events, in order
    gen_inputs,     \* generate_and_download: poppins_ttf, chars per page, suffix of the run
    pages,          \* generate_and_download: the page records handed to the template filler
    fl_args,        \* SpecFill: template_bytes, pages and the library's enumeration
    fl_out,         \* SpecFill: the presentation fill_template_with_pages saves
    fm_args,        \* SpecFont: text, box and font handed to split_by_font_metrics
    fm_out,         \* SpecFont: the pages returned and the line slots of each
    rv_inputs,      \* render_preview_and_edit: the button clicked and the fields' texts
    rv_before,      \* render_preview_and_edit: titles and bodies when the run began
    rv_calls,       \* render_preview_and_edit: the ocr_image calls made, in order
    rv_warnings     \* render_preview_and_edit: the st.warning events, in order

splitVars == <<arg_text, arg_budget, ret_pages>>
ocrVars == <<oc_args, oc_env, oc_ret, oc_calls>>
sessionVars == <<slides_meta, titles, bodies>>
analyzeVars == <<an_inputs, an_locals, an_calls, an_warnings>>
generateVars == <<gen_inputs, pages>>
fillVars == <<fl_args, fl_out>>
fontVars == <<fm_args, fm_out>>
reviewVars == <<rv_inputs, rv_before, rv_calls, rv_warnings>>
vars == <<pc, splitVars, google_client, ocrVars, input_ppt, sessionVars, analyzeVars,
          generateVars, fillVars, fontVars, reviewVars>>

SplitIdle ==
    /\ arg_text = <<>>
    /\ arg_budget = 0
    /\ ret_pages = <<>>

OcrIdle ==
    /\ oc_args = [image_bytes |-> "", backend |-> ""]
    /\ oc_env = [cloud |-> Raised(""), local |-> Raised("")]
    /\ oc_ret = Raised("")
    /\ oc_calls = <<>>

NoAnalysis ==
    /\ an_inputs = [use_ocr |-> FALSE, ocr_scope |-> "", ocr_backend_choice |-> ""]
    /\ an_locals = <<>>
    /\ an_calls = <<>>
    /\ an_warnings = <<>>

NoGeneration ==
    /\ gen_inputs = [poppins_ttf |-> FALSE, paragraph_chars_per_page |-> 0,
                     continuation_style |-> <<>>]
    /\ pages = <<>>

FillIdle ==
    /\ fl_args = [template_bytes |-> Absent("None"), pages |-> <<>>,
                  enum_has_content |-> FALSE]
    /\ fl_out = [slides |-> <<>>, layouts |-> <<>>, layout_idx |-> 0]

FontIdle ==
    /\ fm_args = [text |-> <<>>, font |-> [char_px |-> 0, ascent |-> 0, descent |-> 0],
                  box_known |-> FALSE, box_width_px |-> 0, box_height_px |-> 0]
    /\ fm_out = [pages |-> <<>>, slots |-> <<>>]

ReviewIdle ==
    /\ rv_inputs = [pressed_idx |-> -1, ocr_backend_choice |-> "", titles |-> <<>>,
                    bodies |-> <<>>]
    /\ rv_before = [titles |-> <<>>, bodies |-> <<>>]
    /\ rv_calls = <<>>
    /\ rv_warnings = <<>>

AppIdle ==
    /\ input_ppt = <<>>
    /\ slides_meta = <<>>
    /\ titles = <<>>
    /\ bodies = <<>>
    /\ NoAnalysis
    /\ NoGeneration

\* ------------------------------------------------- SpecSplit: the paginator
SplitAlphabet == {"a", "b", " ", "\n"}
SplitTexts == UNION {[1..n -> SplitAlphabet] : n \in 0..MaxLen}

InitSplit ==
    /\ pc = "call"
    /\ arg_text \in SplitTexts
    /\ arg_budget \in 0..MaxBudget
    /\ ret_pages = <<>>
    /\ google_client = "None"
    /\ OcrIdle
    /\ AppIdle
    /\ FillIdle
    /\ FontIdle
    /\ ReviewIdle

CallSplitByParagraphs ==
    /\ pc = "call"
    /\ ret_pages' = split_by_paragraphs(arg_text, arg_budget)
    /\ pc' = "returned"
    /\ UNCHANGED <<arg_text, arg_budget, google_client, ocrVars, input_ppt, sessionVars,
                   analyzeVars, generateVars,
                   fillVars, fontVars, reviewVars>>

NextSplit == CallSplitByParagraphs

SpecSplit == InitSplit /\ [][NextSplit]_vars

\* ---------------------------------------------------- SpecOcr: ocr_image
\* the texts a recogniser may return
OcrTexts == {<<>>, <<" ", "t", "\n">>, <<"u">>}
OcrImages == {"png-1", "png-2", "not-an-image"}
OcrBackends == {"google_vision", "tesseract", "azure"}

InitOcr ==
    /\ pc = "call"
    /\ SplitIdle
    /\ google_client \in {"None", "client"}
    /\ oc_args \in [image_bytes : OcrImages, backend : OcrBackends]
    /\ oc_env \in [cloud : CloudOutcomes(OcrTexts), local : LocalOutcomes(OcrTexts)]
    /\ oc_ret = Raised("")
    /\ oc_calls = <<>>
    /\ AppIdle
    /\ FillIdle
    /\ FontIdle
    /\ ReviewIdle

CallOcrImage ==
    /\ pc = "call"
    /\ LET r == ocr_image(oc_args.image_bytes, oc_args.backend, google_client,
                          oc_env.cloud, oc_env.local)
       IN /\ oc_ret' = r.ret
          /\ oc_calls' = r.calls
    /\ pc' = "returned"
    /\ UNCHANGED <<splitVars, google_client, oc_args, oc_env, input_ppt, sessionVars,
                   analyzeVars, generateVars,
                   fillVars, fontVars, reviewVars>>

NextOcr == CallOcrImage

SpecOcr == InitOcr /\ [][NextOcr]_vars

\* ----------------------------------------- SpecFill: fill_template_with_pages
\* the slides of a template and the layouts of a template
TemplateSlides(n) == [k \in 1..n |-> template_slide(slide_label(k - 1))]
TemplateLayouts ==
    { << <<PP_TITLE, PP_BODY>> >>,
      << <<>>, <<PP_TITLE>>, <<PP_CENTER_TITLE, PP_CONTENT>> >>,
      << <<15>>, <<PP_TITLE, 16>> >>,
      << <<PP_UNTYPED, PP_BODY>>, <<PP_BODY, PP_TITLE, PP_TITLE>> >>,
      << <<PP_BODY>>, <<4>> >> }
FillTemplates ==
    {Absent(how) : how \in NoTemplate}
    \cup {Template(TemplateSlides(n), ls) : n \in 0..MaxTemplateSlides, ls \in TemplateLayouts}

\* the page records generate_and_download builds
FillPageRecords ==
    { [title |-> <<"Q", "1">>, body |-> <<>>],
      [title |-> <<"Q", "1">>, body |-> <<"-", " ", "a", " ", "\n", "\n", "b">>],
      [title |-> <<"Q", "1", " ", "+">>, body |-> <<"c">>] }
FillPages == UNION {[1..n -> FillPageRecords] : n \in 0..MaxPages}

InitFill ==
    /\ pc = "call"
    /\ SplitIdle
    /\ google_client = "None"
    /\ OcrIdle
    /\ AppIdle
    /\ fl_args \in [template_bytes : FillTemplates, pages : FillPages,
                    enum_has_content : BOOLEAN]
    /\ fl_out = [slides |-> <<>>, layouts |-> <<>>, layout_idx |-> 0]
    /\ FontIdle
    /\ ReviewIdle

CallFillTemplateWithPages ==
    /\ pc = "call"
    /\ fl_out' = fill_template_with_pages(fl_args.template_bytes, fl_args.pages,
                                          fl_args.enum_has_content)
    /\ pc' = "returned"
    /\ UNCHANGED <<splitVars, google_client, ocrVars, input_ppt, sessionVars, analyzeVars,
                   generateVars, fl_args, fontVars, reviewVars>>

NextFill == CallFillTemplateWithPages

SpecFill == InitFill /\ [][NextFill]_vars

\* ------------------------------------------- SpecFont: split_by_font_metrics
FontAlphabet == {"a", " ", "\n"}
FontTexts == UNION {[1..n -> FontAlphabet] : n \in 0..MaxFontLen}
\* fixed-pitch fonts: line heights 3 and 4
Fonts == {[char_px |-> 1, ascent |-> 1, descent |-> 0],
          [char_px |-> 1, ascent |-> 1, descent |-> 1]}
\* without a box the two sizes are None, shown here as 0
FontBoxes ==
    {[box_known |-> FALSE, box_width_px |-> 0, box_height_px |-> 0]}
    \cup [box_known : {TRUE}, box_width_px : 1..MaxBoxWidth, box_height_px : 0..MaxBoxHeight]

InitFont ==
    /\ pc = "call"
    /\ SplitIdle
    /\ google_client = "None"
    /\ OcrIdle
    /\ AppIdle
    /\ FillIdle
    /\ \E text \in FontTexts, font \in Fonts, box \in FontBoxes :
          fm_args = [text |-> text, font |-> font, box_known |-> box.box_known,
                     box_width_px |-> box.box_width_px, box_height_px |-> box.box_height_px]
    /\ fm_out = [pages |-> <<>>, slots |-> <<>>]
    /\ ReviewIdle

CallSplitByFontMetrics ==
    /\ pc = "call"
    /\ fm_out' = split_by_font_metrics(fm_args.text, fm_args.font, fm_args.box_known,
                                       fm_args.box_width_px, fm_args.box_height_px)
    /\ pc' = "returned"
    /\ UNCHANGED <<splitVars, google_client, ocrVars, input_ppt, sessionVars, analyzeVars,
                   generateVars, fillVars, fm_args, reviewVars>>

NextFont == CallSplitByFontMetrics

SpecFont == InitFont /\ [][NextFont]_vars

\* ------------------------------------------------------- Spec: the application
\* the slides a deck is made of
TitleOnlyPictures ==
    <<TitlePlaceholder(<<"Q", "1">>), Picture("wmf-1"), Picture(""), Picture("png-2")>>
TitleAndShortBody ==
    <<TitlePlaceholder(<<" ", "Q", "1", " ">>), TextBox(<<"Q", "1">>),
      TextBox(<<"x", "\n", "\n", "Q", "1">>), Picture("png-2")>>
NoTitleTwoRuns ==
    <<TextBox(<<"H", "d", "\n", "r", "e", "s", "t">>), BodyPlaceholder(<<"c", " ">>),
      Picture("png-1")>>
TitleAndLongBody ==
    <<TitlePlaceholder(<<"Q", "1">>), TextBox(Rep("w", MIN_BODY_LENGTH)), Picture("png-2")>>
ThreeLongParagraphs ==
    <<TitlePlaceholder(<<"Q", "1">>), TextBox(Rep("a", 765)), TextBox(Rep("b", 765)),
      TextBox(Rep("c", 766))>>

SlidePool == {TitleOnlyPictures, TitleAndShortBody, NoTitleTwoRuns, TitleAndLongBody,
              ThreeLongParagraphs}
Decks == UNION {[1..n -> SlidePool] : n \in 1..MaxSlides}

\* which recognisers are reachable while one picture is processed
AppOcrEnvs == [cloud_up : BOOLEAN, local_up : BOOLEAN]
NoEnv == [cloud_up |-> FALSE, local_up |-> FALSE]

RECURSIVE EnvSeqs(_, _)
\* one environment per picture that is recognised when active, none otherwise
EnvSeqs(image_shapes, active) ==
    IF image_shapes = <<>> THEN {<<>>}
    ELSE {<<e>> \o rest :
            e \in (IF active /\ Head(image_shapes) # "" THEN AppOcrEnvs ELSE {NoEnv}),
            rest \in EnvSeqs(Tail(image_shapes), active)}

RECURSIVE DeckEnvs(_, _, _)
\* one sequence of environments per slide
DeckEnvs(metas, use_ocr, ocr_scope) ==
    IF metas = <<>> THEN {<<>>}
    ELSE {<<es>> \o rest :
            es \in EnvSeqs(Head(metas).image_shapes,
                           use_ocr /\ needs_ocr(ocr_scope, resolve(Head(metas)).body)),
            rest \in DeckEnvs(Tail(metas), use_ocr, ocr_scope)}

\* the script's top level: init_google_vision replaces the client when it succeeds
script_top(client, inited) == IF inited THEN "client" ELSE client

Init ==
    /\ pc = "idle"
    /\ SplitIdle
    /\ OcrIdle
    /\ google_client = "None"
    /\ input_ppt \in Decks
    /\ slides_meta = <<>>
    /\ titles = <<>>
    /\ bodies = <<>>
    /\ NoAnalysis
    /\ NoGeneration
    /\ FillIdle
    /\ FontIdle
    /\ ReviewIdle

RECURSIVE analyze_slides(_, _, _, _, _, _)
\* lines 131-207: "for meta in slides_meta"
analyze_slides(metas, envs, use_ocr, ocr_scope, backend, client) ==
    IF metas = <<>> THEN <<>>
    ELSE <<analyze_slide(Head(metas), use_ocr, ocr_scope, backend, client, Head(envs))>>
         \o analyze_slides(Tail(metas), Tail(envs), use_ocr, ocr_scope, backend, client)

\* the button "Analyze & Preview"; the upload is read once, so the handler is
\* modelled for the first click after the upload
AnalyzeAndPreview ==
    /\ pc = "idle"
    /\ \E use_ocr \in BOOLEAN, ocr_scope \in {"Only", "Always"},
          backend \in {"google_vision", "tesseract"}, inited \in BOOLEAN,
          metas \in {extract_text_shapes(input_ppt)} :
        \E envs \in DeckEnvs(metas, use_ocr, ocr_scope) :
          \E res \in {analyze_slides(metas, envs, use_ocr, ocr_scope, backend,
                                     script_top(google_client, inited))} :
            /\ google_client' = script_top(google_client, inited)
            /\ an_inputs' = [use_ocr |-> use_ocr, ocr_scope |-> ocr_scope,
                             ocr_backend_choice |-> backend]
            /\ slides_meta' = metas
            /\ titles' = [i \in 1..Len(metas) |-> res[i].title]
            /\ bodies' = [i \in 1..Len(metas) |-> res[i].body]
            /\ an_locals' = [i \in 1..Len(metas) |->
                                [pre_body |-> res[i].pre_body, ocr_text |-> res[i].ocr_text]]
            /\ an_calls' = flatten_from([i \in 1..Len(metas) |-> res[i].calls], 1)
            /\ an_warnings' = flatten_from([i \in 1..Len(metas) |-> res[i].warnings], 1)
            /\ pc' = "analyzed"
            /\ UNCHANGED <<splitVars, ocrVars, input_ppt, generateVars, fillVars, fontVars,
                           reviewVars>>

\* the values of "Chars per page (heuristic pagination)": at least 200
PageBudgets == {DEFAULT_CHARS_PER_PAGE, 2000}
\* the values of "Continuation suffix (default)"
Suffixes == {DEFAULT_CONTINUATION_SUFFIX, <<"+">>}

\* the button "Generate & Download" before any analysis: a warning, nothing built
GenerateNothing ==
    /\ pc = "idle"
    /\ slides_meta = <<>>
    /\ \E inited \in BOOLEAN : google_client' = script_top(google_client, inited)
    /\ pc' = "nothing to generate"
    /\ UNCHANGED <<splitVars, ocrVars, input_ppt, sessionVars, analyzeVars, generateVars,
                   fillVars, fontVars, reviewVars>>

\* the button "Generate & Download" up to the call of fill_template_with_pages;
\* the warnings of the analysis run are gone with that run
GenerateAndDownload ==
    /\ pc = "analyzed"
    /\ slides_meta # <<>>
    /\ \E font_uploaded \in BOOLEAN, budget \in PageBudgets, suffix \in Suffixes :
        \E built \in {build_pages(slides_meta, titles, bodies, font_uploaded, budget, suffix)} :
            /\ gen_inputs' = [poppins_ttf |-> font_uploaded,
                              paragraph_chars_per_page |-> budget,
                              continuation_style |-> suffix]
            /\ pages' = built
            /\ \E inited \in BOOLEAN : google_client' = script_top(google_client, inited)
    /\ an_inputs' = [use_ocr |-> FALSE, ocr_scope |-> "", ocr_backend_choice |-> ""]
    /\ an_locals' = <<>>
    /\ an_calls' = <<>>
    /\ an_warnings' = <<>>
    /\ pc' = "generated"
    /\ UNCHANGED <<splitVars, ocrVars, input_ppt, sessionVars, fillVars, fontVars,
                   reviewVars>>

Next ==
    \/ AnalyzeAndPreview
    \/ GenerateNothing
    \/ GenerateAndDownload

Spec == Init /\ [][Next]_vars

\* ------------------------------- SpecExtract: decks with footer placeholders
TitleBodyFooter ==
    <<TitlePlaceholder(<<"Q", "1">>), TextBox(<<"b">>),
      FooterAreaPlaceholder(PP_FOOTER, <<"A", "c", "m", "e">>)>>
TitleDateNumber ==
    <<TitlePlaceholder(<<"Q", "1">>), FooterAreaPlaceholder(PP_DATE, <<"2", "0", "2", "4">>),
      FooterAreaPlaceholder(PP_SLIDE_NUMBER, <<"3">>)>>
BodyNumber ==
    <<TextBox(<<"b">>), FooterAreaPlaceholder(PP_SLIDE_NUMBER, <<" ", "3", "\n">>)>>
FooterNamesTitle ==
    <<FooterAreaPlaceholder(PP_FOOTER, <<"Q", "1">>), TitlePlaceholder(<<"Q", "1">>),
      BodyPlaceholder(<<"b">>)>>
BlankFooter ==
    <<TitlePlaceholder(<<"Q", "1">>), BodyPlaceholder(<<"b">>),
      FooterAreaPlaceholder(PP_FOOTER, <<" ">>)>>

FooterSlidePool == {TitleBodyFooter, TitleDateNumber, BodyNumber, FooterNamesTitle, BlankFooter}
FooterDecks == UNION {[1..n -> FooterSlidePool] : n \in 1..MaxSlides}

InitExtract ==
    /\ pc = "idle"
    /\ SplitIdle
    /\ OcrIdle
    /\ google_client = "None"
    /\ input_ppt \in FooterDecks
    /\ slides_meta = <<>>
    /\ titles = <<>>
    /\ bodies = <<>>
    /\ NoAnalysis
    /\ NoGeneration
    /\ FillIdle
    /\ FontIdle
    /\ ReviewIdle

NextExtract == AnalyzeAndPreview

SpecExtract == InitExtract /\ [][NextExtract]_vars

\* ------------------------------------------ SpecReview: the review of a deck
\* a slide whose picture is a blank scan: the recogniser returns a form feed
TitleAndBlankScan ==
    <<TitlePlaceholder(<<"Q", "1">>), TextBox(<<"b">>), Picture("png-3")>>

ReviewDecks ==
    { <<TitleOnlyPictures, TitleAndLongBody>>,
      <<TitleAndBlankScan, TitleAndShortBody>> }

\* what the reviewer typed into a title field and into a body field
TitleEdit == <<"E">>
BodyEdit == <<" ", "r", " ">>

\* the texts of the fields of all slides: each field holds the stored text or an edit
FieldTexts(stored, edit) ==
    {f \in [1..Len(stored) -> {stored[i] : i \in 1..Len(stored)} \cup {edit}] :
        \A i \in 1..Len(stored) : f[i] \in {stored[i], edit}}

InitReview ==
    /\ pc = "idle"
    /\ SplitIdle
    /\ OcrIdle
    /\ google_client = "None"
    /\ input_ppt \in ReviewDecks
    /\ slides_meta = <<>>
    /\ titles = <<>>
    /\ bodies = <<>>
    /\ NoAnalysis
    /\ NoGeneration
    /\ FillIdle
    /\ FontIdle
    /\ ReviewIdle

\* render_preview_and_edit before any analysis: lines 217-220, an st.info only
RenderNothing ==
    /\ pc = "idle"
    /\ slides_meta = <<>>
    /\ \E inited \in BOOLEAN : google_client' = script_top(google_client, inited)
    /\ pc' = "nothing to review"
    /\ UNCHANGED <<splitVars, ocrVars, input_ppt, sessionVars, analyzeVars, generateVars,
                   fillVars, fontVars, reviewVars>>

\* a run of render_preview_and_edit over an analysed deck, with at most one
\* "Re-run OCR on images for this slide" button clicked; the warnings of the
\* analysis run are gone with that run
RenderPreviewAndEdit ==
    /\ pc = "analyzed"
    /\ slides_meta # <<>>
    /\ \E pressed_idx \in {-1} \cup {slides_meta[i].slide_index : i \in 1..Len(slides_meta)},
          backend \in {"google_vision", "tesseract"}, inited \in BOOLEAN,
          new_titles \in FieldTexts(titles, TitleEdit),
          new_bodies \in FieldTexts(bodies, BodyEdit) :
        \E envs \in (IF pressed_idx = -1 THEN {<<>>}
                     ELSE EnvSeqs(slides_meta[pressed_idx + 1].image_shapes, TRUE)) :
          \E res \in {review_slides(slides_meta, new_titles, new_bodies, pressed_idx, backend,
                                    script_top(google_client, inited), envs)} :
            /\ google_client' = script_top(google_client, inited)
            /\ rv_inputs' = [pressed_idx |-> pressed_idx, ocr_backend_choice |-> backend,
                             titles |-> new_titles, bodies |-> new_bodies]
            /\ rv_before' = [titles |-> titles, bodies |-> bodies]
            /\ titles' = [i \in 1..Len(slides_meta) |-> res[i].title]
            /\ bodies' = [i \in 1..Len(slides_meta) |-> res[i].body]
            /\ rv_calls' = flatten_from([i \in 1..Len(slides_meta) |-> res[i].calls], 1)
            /\ rv_warnings' = flatten_from([i \in 1..Len(slides_meta) |-> res[i].warnings], 1)
    /\ an_inputs' = [use_ocr |-> FALSE, ocr_scope |-> "", ocr_backend_choice |-> ""]
    /\ an_locals' = <<>>
    /\ an_calls' = <<>>
    /\ an_warnings' = <<>>
    /\ pc' = "reviewed"
    /\ UNCHANGED <<splitVars, ocrVars, input_ppt, slides_meta, generateVars, fillVars,
                   fontVars>>

NextReview ==
    \/ AnalyzeAndPreview
    \/ RenderNothing
    \/ RenderPreviewAndEdit

SpecReview == InitReview /\ [][NextReview]_vars

\* --------------------------------------------------- claims on the paginator
\* the paragraphs of every page, page by page
PageParagraphs(page_texts) ==
    flatten_from([k \in 1..Len(page_texts) |-> paragraphs_of(page_texts[k])], 1)

\* C1: split_by_paragraphs returns at least one page; the trimmed non-blank
\* paragraphs of the pages, page by page, are exactly the trimmed non-blank
\* paragraphs of the body in the same order; the empty body gives [""].
C1_ParagraphsPreserved ==
    pc = "returned" =>
        /\ Len(ret_pages) >= 1
        /\ PageParagraphs(ret_pages) = paragraphs_of(arg_text)
        /\ (arg_text = <<>> => ret_pages = << <<>> >>)

\* a body of three paragraphs was split into two pages, one holding two paragraphs
C1_Witness ==
    /\ pc = "returned"
    /\ Len(paragraphs_of(arg_text)) = 3
    /\ Len(ret_pages) = 2
    /\ Len(paragraphs_of(ret_pages[1])) = 2

\* C2: a paragraph longer than the budget is never cut and never shares its
\* page: every page holding such a paragraph is that paragraph, every such
\* paragraph of the body is a page, and a body of one such paragraph gives
\* exactly one page.
C2_OversizeParagraphWhole ==
    pc = "returned" =>
        LET ps == paragraphs_of(arg_text)
        IN /\ \A k \in 1..Len(ret_pages) :
                \A q \in {paragraphs_of(ret_pages[k])[n] :
                              n \in 1..Len(paragraphs_of(ret_pages[k]))} :
                    Len(q) > arg_budget => ret_pages[k] = q
           /\ \A i \in 1..Len(ps) :
                Len(ps[i]) > arg_budget =>
                    \E k \in 1..Len(ret_pages) : ret_pages[k] = ps[i]
           /\ (Len(ps) = 1 /\ Len(ps[1]) > arg_budget => ret_pages = <<ps[1]>>)

\* a paragraph that fits is followed by an oversize one, which gets its own page
C2_Witness ==
    /\ pc = "returned"
    /\ LET ps == paragraphs_of(arg_text)
       IN /\ Len(ps) = 2
          /\ Len(ps[1]) <= arg_budget
          /\ Len(ps[2]) > arg_budget
          /\ ret_pages = <<ps[1], ps[2]>>

\* C14: a page holding two or more paragraphs is no longer than the budget,
\* and a page is closed only when the next paragraph would not fit: for two
\* consecutive pages, len(page) + len(first paragraph of the next) + 2 > budget
C14_GreedyWithinBudget ==
    pc = "returned" =>
        /\ \A k \in 1..Len(ret_pages) :
              Len(paragraphs_of(ret_pages[k])) >= 2 => Len(ret_pages[k]) <= arg_budget
        /\ \A k \in 1..(Len(ret_pages) - 1) :
              Len(ret_pages[k]) + Len(paragraphs_of(ret_pages[k + 1])[1]) + 2 > arg_budget

\* a page of two paragraphs fills its budget and the third paragraph opens a new page
C14_Witness ==
    /\ pc = "returned"
    /\ Len(ret_pages) = 2
    /\ Len(paragraphs_of(ret_pages[1])) = 2
    /\ Len(ret_pages[1]) <= arg_budget
    /\ Len(ret_pages[1]) + Len(ret_pages[2]) + 2 > arg_budget

\* the line height of the font in use
LineHeight == fm_args.font.ascent + fm_args.font.descent + 2

\* C15: with a known box every line slot costs ascent + descent + 2; slots go
\* to the current page while the running height stays within the box height and
\* the first slot that would overflow opens the next page: a page of two or
\* more slots has slotCount * lineHeight <= boxHeight, only a page of a single
\* slot may exceed it, every page but the last is full, and the slots of the
\* pages are the measured lines in order
C15_SlotsWithinBox ==
    pc = "returned" /\ fm_args.box_known /\ fm_args.text # <<>> =>
        /\ Len(fm_out.pages) = (IF fm_out.slots = <<>> THEN 1 ELSE Len(fm_out.slots))
        /\ flatten_from(fm_out.slots, 1) =
               measure_text_lines(fm_args.text, fm_args.font.char_px, fm_args.box_width_px)
        /\ \A k \in 1..Len(fm_out.slots) :
              /\ Len(fm_out.slots[k]) >= 1
              /\ Len(fm_out.slots[k]) >= 2 =>
                     Len(fm_out.slots[k]) * LineHeight <= fm_args.box_height_px
              /\ fm_out.pages[k] = page_of_slots(fm_out.slots[k])
        /\ \A k \in 1..(Len(fm_out.slots) - 1) :
              (Len(fm_out.slots[k]) + 1) * LineHeight > fm_args.box_height_px

\* a box of two slots: the first page holds a line and the blank slot after
\* it, and the third slot opens the second page
C15_Witness ==
    /\ pc = "returned"
    /\ fm_args.box_known
    /\ Len(fm_out.slots) = 2
    /\ Len(fm_out.slots[1]) = 2
    /\ fm_out.slots[1][2] = <<>>
    /\ 2 * LineHeight <= fm_args.box_height_px
    /\ 3 * LineHeight > fm_args.box_height_px

\* C16: for a body with a non-blank paragraph and a known box no page of the
\* result is the empty string, the last one included
C16_NoEmptyPage ==
    pc = "returned" /\ fm_args.box_known /\ paragraphs_of(fm_args.text) # <<>> =>
        \A k \in 1..Len(fm_out.pages) : fm_out.pages[k] # <<>>

\* ----------------------------------------------------- claims on ocr_image
\* the calls ocr_image made to recogniser fn
CallsTo(fn) == SelectSeq(oc_calls, LAMBDA c : c.fn = fn)

\* C9: with google_vision, a cloud failure (an uninitialised client included)
\* is followed by exactly one tesseract attempt whose result is returned, and
\* when that attempt raises too the cloud error is the one raised; with
\* tesseract there is no second attempt; an unknown backend raises without
\* any recogniser being called.
C9_FallbackOnce ==
    pc = "returned" =>
        /\ oc_args.backend = "google_vision" =>
              /\ Len(CallsTo("google_vision")) = 1
              /\ oc_calls[1].fn = "google_vision"
              /\ oc_calls[1].image = oc_args.image_bytes
              /\ (google_client = "None" => ~oc_calls[1].out.ok)
              /\ (google_client # "None" => oc_calls[1].out = oc_env.cloud)
              /\ (oc_calls[1].out.ok => oc_calls = <<oc_calls[1]>> /\ oc_ret = oc_calls[1].out)
              /\ (~oc_calls[1].out.ok =>
                    /\ Len(oc_calls) = 2
                    /\ oc_calls[2] = [fn |-> "tesseract", image |-> oc_args.image_bytes,
                                      out |-> oc_env.local]
                    /\ (oc_env.local.ok => oc_ret = oc_env.local)
                    /\ (~oc_env.local.ok => oc_ret = oc_calls[1].out))
        /\ oc_args.backend = "tesseract" =>
              /\ oc_calls = <<[fn |-> "tesseract", image |-> oc_args.image_bytes,
                               out |-> oc_env.local]>>
              /\ oc_ret = oc_env.local
        /\ oc_args.backend \notin {"google_vision", "tesseract"} =>
              /\ oc_calls = <<>>
              /\ ~oc_ret.ok

\* the cloud request failed, tesseract failed too, and the cloud error came out
C9_Witness ==
    /\ pc = "returned"
    /\ oc_args.backend = "google_vision"
    /\ google_client = "client"
    /\ Len(oc_calls) = 2
    /\ ~oc_calls[1].out.ok
    /\ ~oc_calls[2].out.ok
    /\ oc_ret = oc_calls[1].out
    /\ oc_ret # oc_calls[2].out

\* ------------------------------------------- claims on analyze_and_preview
\* the shapes of slide i of the upload (slide_index i - 1)
ShapesOf(i) == input_ppt[i]

\* the title placeholders of a slide that hold text
TitleShapes(shapes) ==
    SelectSeq(shapes, LAMBDA sh : sh.is_placeholder /\ sh.ph_type = PP_TITLE
                                  /\ strip(sh.text) # <<>>)

\* the trimmed texts of the text runs of a slide, blank ones left out
TextRuns(shapes) ==
    SelectSeq([k \in 1..Len(shapes) |-> strip(shapes[k].text)], LAMBDA t : t # <<>>)

\* the sequence seq without the elements equal to x
Without(seq, x) == SelectSeq(seq, LAMBDA t : t # x)

\* the elements of a sequence
Range(seq) == {seq[k] : k \in 1..Len(seq)}

\* C5 as stated: with a non-empty title placeholder the title is its text, the
\* body before OCR is the blank-line join of the non-blank runs that differ
\* from the title, the title is never one of the body's paragraphs, and a
\* slide with no other text has an empty body.
C5_AsStated ==
    pc = "analyzed" =>
        \A i \in 1..Len(input_ppt) :
            TitleShapes(ShapesOf(i)) # <<>> =>
                LET title == strip(TitleShapes(ShapesOf(i))[1].text)
                    body == an_locals[i].pre_body
                IN /\ titles[i] = title
                   /\ body = join_blank(Without(TextRuns(ShapesOf(i)), title))
                   /\ title \notin Range(paragraphs_of(body))
                   /\ (Range(TextRuns(ShapesOf(i))) = {title} => body = <<>>)

\* C5 amended: the title is the placeholder's trimmed text, the body before
\* OCR is the blank-line join of the trimmed non-blank runs that differ from
\* the title, so that no run of the body equals the title (a run that holds
\* the title as one of its own paragraphs is kept whole), and a slide with no
\* other text has an empty body.
C5_TitlePlaceholder ==
    pc = "analyzed" =>
        \A i \in 1..Len(input_ppt) :
            TitleShapes(ShapesOf(i)) # <<>> =>
                LET title == strip(TitleShapes(ShapesOf(i))[1].text)
                    body == an_locals[i].pre_body
                IN /\ titles[i] = title
                   /\ body = join_blank(Without(TextRuns(ShapesOf(i)), title))
                   /\ title \notin Range(Without(TextRuns(ShapesOf(i)), title))
                   /\ (Range(TextRuns(ShapesOf(i))) = {title} => body = <<>>)

\* a slide whose run repeats the title lost that run, and a title-only slide has no body
C5_Witness ==
    /\ pc = "analyzed"
    /\ \E i \in 1..Len(input_ppt) :
          /\ ShapesOf(i) = TitleAndShortBody
          /\ titles[i] = <<"Q", "1">>
          /\ an_locals[i].pre_body = <<"x", "\n", "\n", "Q", "1">>
    /\ \E i \in 1..Len(input_ppt) :
          /\ ShapesOf(i) = TitleOnlyPictures
          /\ an_locals[i].pre_body = <<>>

\* C6: without title placeholder text, the title is the first non-blank line of
\* the first text run, the rest of that run (when there is any) is the body's
\* first paragraph, the later runs follow, and the first run is not otherwise
\* part of the body.
C6_FirstLineTitle ==
    pc = "analyzed" =>
        \A i \in 1..Len(input_ppt) :
            (TitleShapes(ShapesOf(i)) = <<>> /\ TextRuns(ShapesOf(i)) # <<>>) =>
                LET runs == TextRuns(ShapesOf(i))
                    lines == splitlines(runs[1])
                    remainder == strip(join_nl(Tail(lines)))
                    sources == (IF remainder # <<>> THEN <<remainder>> ELSE <<>>) \o Tail(runs)
                IN /\ titles[i] = strip(lines[1])
                   /\ an_locals[i].pre_body = join_blank(sources)

\* C7: a body shorter than 20 characters takes the OCR text T, as
\* (body + "\n\n" + T) trimmed or as T when the body is empty; a body of 20
\* characters or more is left as it was whatever the policy and the outcome.
C7_OcrMerge ==
    pc = "analyzed" =>
        \A i \in 1..Len(input_ppt) :
            LET body == an_locals[i].pre_body
                T == an_locals[i].ocr_text
            IN /\ (Len(body) < 20 /\ T # <<>> /\ body # <<>>) =>
                      bodies[i] = strip(body \o <<"\n", "\n">> \o T)
               /\ (Len(body) < 20 /\ T # <<>> /\ body = <<>>) => bodies[i] = T
               /\ (Len(body) < 20 /\ T = <<>>) => bodies[i] = body
               /\ Len(body) >= 20 => bodies[i] = body

\* OCR text was appended to a short body, and was dropped for a body of 20
\* characters although its picture was recognised
C7_Witness ==
    /\ pc = "analyzed"
    /\ \E i \in 1..Len(input_ppt) :
          /\ an_locals[i].pre_body = <<"x", "\n", "\n", "Q", "1">>
          /\ an_locals[i].ocr_text = <<"t">>
          /\ bodies[i] = <<"x", "\n", "\n", "Q", "1", "\n", "\n", "t">>
    /\ \E i \in 1..Len(input_ppt) :
          /\ Len(an_locals[i].pre_body) = 20
          /\ an_inputs.ocr_scope = "Always"
          /\ an_locals[i].ocr_text = <<"t">>
          /\ bodies[i] = an_locals[i].pre_body

\* whether the OCR pass ran over slide i
OcrRan(i) ==
    an_inputs.use_ocr /\
    (an_inputs.ocr_scope = "Always" \/ Len(an_locals[i].pre_body) < 20)

\* the pictures with a payload of the slides whose OCR pass ran, in order
PicturesRecognised ==
    flatten_from(
        [i \in 1..Len(input_ppt) |->
            IF OcrRan(i)
            THEN SelectSeq([k \in 1..Len(ShapesOf(i)) |->
                               [slide |-> i - 1, shape |-> ShapesOf(i)[k]]],
                           LAMBDA x : x.shape.is_picture /\ x.shape.blob # "")
            ELSE <<>>], 1)

\* the ocr_image calls made for slide_index idx
CallsOf(idx) == SelectSeq(an_calls, LAMBDA c : c.slide = idx)

\* every picture of every slide under OCR was handed to ocr_image exactly once,
\* in order, preprocessed when preprocessing worked and raw when it failed,
\* and every exception of ocr_image became one warning
OcrPassNeverAborts ==
    /\ Len(an_calls) = Len(PicturesRecognised)
    /\ \A c \in 1..Len(an_calls) :
          /\ an_calls[c].slide = PicturesRecognised[c].slide
          /\ an_calls[c].image = PicturesRecognised[c].shape.blob
          /\ an_calls[c].sent = IF an_calls[c].image \in Decodable
                                THEN <<"preprocessed", an_calls[c].image>>
                                ELSE an_calls[c].image
    /\ an_warnings = [w \in 1..Len(an_warnings) |->
                         LET failed == SelectSeq(an_calls, LAMBDA c : ~c.ret.ok)
                         IN [slide |-> failed[w].slide, error |-> failed[w].ret.error]]
    /\ Len(an_warnings) = Len(SelectSeq(an_calls, LAMBDA c : ~c.ret.ok))

\* C8 as stated: no failure stops the pass, and the slide's OCR text is the
\* blank-line join of the texts of the pictures that were recognised.
C8_AsStated ==
    pc = "analyzed" =>
        /\ OcrPassNeverAborts
        /\ \A i \in 1..Len(input_ppt) :
              LET ok == SelectSeq(CallsOf(i - 1), LAMBDA c : c.ret.ok)
              IN an_locals[i].ocr_text = join_blank([k \in 1..Len(ok) |-> ok[k].ret.text])

\* C8 amended: no failure stops the pass (a preprocessing failure sends the raw
\* bytes, a recognition failure becomes a warning), and the slide's OCR text is
\* the blank-line join, in picture order, of the trimmed texts of the pictures
\* for which recognition returned a non-empty text.
C8_FailureIsolated ==
    pc = "analyzed" =>
        /\ OcrPassNeverAborts
        /\ \A i \in 1..Len(input_ppt) :
              LET ok == SelectSeq(CallsOf(i - 1), LAMBDA c : c.ret.ok /\ c.ret.text # <<>>)
              IN an_locals[i].ocr_text = join_blank([k \in 1..Len(ok) |-> strip(ok[k].ret.text)])

\* on one slide the first picture could not be preprocessed and its recognition
\* failed, the next one was recognised, and a later slide was processed too
C8_Witness ==
    /\ pc = "analyzed"
    /\ Len(input_ppt) = 2
    /\ Len(an_calls) >= 3
    /\ an_calls[1].slide = 0
    /\ an_calls[1].image \notin Decodable
    /\ an_calls[1].sent = an_calls[1].image
    /\ ~an_calls[1].ret.ok
    /\ an_calls[2].slide = 0
    /\ an_calls[2].ret.ok
    /\ an_locals[1].ocr_text = <<"t">>
    /\ an_calls[3].slide = 1
    /\ an_warnings # <<>>

\* ------------------------------------------- claims on generate_and_download
\* the pages built from slide_index idx
PagesOf(idx) == SelectSeq(pages, LAMBDA pg : pg.slide = idx)

\* the bodies of a sequence of page records
BodiesOf(pgs) == [k \in 1..Len(pgs) |-> pgs[k].body]

\* whether seq ends with tail
EndsWith(seq, tail) ==
    Len(seq) >= Len(tail) /\ SubSeq(seq, Len(seq) - Len(tail) + 1, Len(seq)) = tail

\* the scenario: a body of 2300 characters in three paragraphs of about 800
\* characters each, paginated with a budget of 1100
IsScenarioBody(body) ==
    /\ Len(body) = 2300
    /\ Len(paragraphs_of(body)) = 3
    /\ \A k \in 1..3 : Len(paragraphs_of(body)[k]) \in 700..900

\* C3 as stated: the scenario gives exactly two pages, the second with the suffix.
C3_AsStated ==
    (pc = "generated" /\ gen_inputs.paragraph_chars_per_page = 1100) =>
        \A i \in 1..Len(bodies) :
            IsScenarioBody(bodies[i]) =>
                /\ Len(PagesOf(i - 1)) = 2
                /\ EndsWith(PagesOf(i - 1)[2].title, gen_inputs.continuation_style)

\* C3 amended: the scenario gives exactly three pages, one per paragraph (no
\* two of the paragraphs fit a budget of 1100), and the second and third page
\* carry the continuation suffix after the title.
C3_ScenarioThreePages ==
    (pc = "generated" /\ gen_inputs.paragraph_chars_per_page = 1100) =>
        \A i \in 1..Len(bodies) :
            IsScenarioBody(bodies[i]) =>
                /\ BodiesOf(PagesOf(i - 1)) = paragraphs_of(bodies[i])
                /\ Len(PagesOf(i - 1)) = 3
                /\ PagesOf(i - 1)[1].title = titles[i]
                /\ \A k \in 2..3 :
                      /\ PagesOf(i - 1)[k].title # titles[i]
                      /\ EndsWith(PagesOf(i - 1)[k].title, gen_inputs.continuation_style)

\* the scenario body was paginated with the budget of 1100 and no font
C3_Witness ==
    /\ pc = "generated"
    /\ gen_inputs.paragraph_chars_per_page = 1100
    /\ ~gen_inputs.poppins_ttf
    /\ \E i \in 1..Len(bodies) : IsScenarioBody(bodies[i]) /\ Len(PagesOf(i - 1)) = 3

\* the pages are in slide order and, within a slide, in pagination order
PagesInOrder ==
    /\ \A k \in 1..Len(pages) : pages[k].slide \in 0..(Len(slides_meta) - 1)
    /\ \A k \in 1..(Len(pages) - 1) :
          \/ pages[k + 1].slide > pages[k].slide
          \/ pages[k + 1].slide = pages[k].slide /\ pages[k + 1].ordinal = pages[k].ordinal + 1
    /\ \A idx \in 0..(Len(slides_meta) - 1) :
          PagesOf(idx) # <<>> /\ PagesOf(idx)[1].ordinal = 0

\* C4 as stated: ordinal 0 carries the title, a later ordinal the title
\* concatenated with the suffix, and the pages are in slide and pagination order.
C4_AsStated ==
    pc = "generated" =>
        /\ PagesInOrder
        /\ \A k \in 1..Len(pages) :
              pages[k].title = IF pages[k].ordinal = 0 THEN titles[pages[k].slide + 1]
                               ELSE titles[pages[k].slide + 1] \o gen_inputs.continuation_style

\* C4 amended: ordinal 0 carries the title, a later ordinal the title, one
\* space and the configured suffix, and the pages are in slide and pagination order.
C4_TitlesAndOrder ==
    pc = "generated" =>
        /\ PagesInOrder
        /\ \A k \in 1..Len(pages) :
              pages[k].title = IF pages[k].ordinal = 0 THEN titles[pages[k].slide + 1]
                               ELSE titles[pages[k].slide + 1] \o <<" ">>
                                    \o gen_inputs.continuation_style

\* two slides, the first split into several pages, with a suffix that is not the default
C4_Witness ==
    /\ pc = "generated"
    /\ Len(slides_meta) = 2
    /\ Len(PagesOf(0)) >= 2
    /\ Len(PagesOf(1)) >= 2
    /\ gen_inputs.continuation_style # DEFAULT_CONTINUATION_SUFFIX

\* C10: with the boxes unknown the pages are those of split_by_paragraphs under
\* the configured chars per page, font uploaded or not.
C10_FallbackUsesConfiguredBudget ==
    pc = "generated" =>
        \A i \in 1..Len(bodies) :
            BodiesOf(PagesOf(i - 1)) =
                split_by_paragraphs(bodies[i], gen_inputs.paragraph_chars_per_page)

\* ------------------------------------------------ claims on template_filler
\* the layout has a title-type placeholder, a body- or content-type placeholder
HasTitlePlaceholder(layout) ==
    \E k \in 1..Len(layout) : layout[k] \in {PP_TITLE, PP_CENTER_TITLE}
HasBodyPlaceholder(layout) ==
    \E k \in 1..Len(layout) : layout[k] \in {PP_BODY, PP_CONTENT}

\* C11: the saved document holds exactly one slide per page record, in the
\* order of the page records, with or without a template, and none of the
\* slides the template came with; the template's layouts are retained
C11_OneSlidePerPage ==
    pc = "returned" =>
        /\ Len(fl_out.slides) = Len(fl_args.pages)
        /\ \A k \in 1..Len(fl_out.slides) :
              /\ fl_out.slides[k].kind = "page"
              /\ fl_out.slides[k].title = fl_args.pages[k].title
              /\ fl_out.slides[k].body = body_paragraphs(fl_args.pages[k].body)
        /\ fl_args.template_bytes.bytes = "pptx" =>
              fl_out.layouts = fl_args.template_bytes.layouts

\* a template with two slides of its own was filled with two page records
C11_Witness ==
    /\ pc = "returned"
    /\ fl_args.template_bytes.bytes = "pptx"
    /\ Len(fl_args.template_bytes.slides) = 2
    /\ Len(fl_args.pages) = 2
    /\ fl_args.pages[1] # fl_args.pages[2]
    /\ Len(fl_out.slides) = 2

\* C12: the layout chosen for a template is the first with both a title and a
\* body or content placeholder; failing that, a layout with a title
\* placeholder; failing that, the layout of index 0
C12_ThreeStepFallback ==
    pc = "returned" /\ fl_args.template_bytes.bytes = "pptx" =>
        LET ls == fl_args.template_bytes.layouts
            both == {i \in 1..Len(ls) : HasTitlePlaceholder(ls[i]) /\ HasBodyPlaceholder(ls[i])}
            titled == {i \in 1..Len(ls) : HasTitlePlaceholder(ls[i])}
            chosen == fl_out.layout_idx + 1
        IN IF both # {} THEN chosen \in both /\ \A i \in both : chosen <= i
           ELSE IF titled # {} THEN chosen \in titled
           ELSE chosen = 1

\* ------------------------------------------------- claims on the extractor
\* the shape is a footer, date or slide-number placeholder
IsFooterArea(shape) ==
    shape.is_placeholder /\ shape.ph_type \in {PP_FOOTER, PP_DATE, PP_SLIDE_NUMBER}

\* the text runs of a slide: the trimmed non-blank texts of its shapes, the
\* footer, date and slide-number placeholders left out
RunsWithoutFooterArea(shapes) ==
    LET kept == SelectSeq(shapes, LAMBDA sh : sh.has_text_frame /\ ~IsFooterArea(sh)
                                              /\ strip(sh.text) # <<>>)
    IN [k \in 1..Len(kept) |-> strip(kept[k].text)]

\* C13: no footer, date or slide-number placeholder is recorded as a text run,
\* so the resolved body is made of the other runs only
C13_FooterAreaExcluded ==
    pc = "analyzed" =>
        \A i \in 1..Len(input_ppt) :
            /\ slides_meta[i].text_shapes = RunsWithoutFooterArea(input_ppt[i])
            /\ bodies[i] = join_blank(Without(RunsWithoutFooterArea(input_ppt[i]), titles[i]))

\* ------------------------------------------------- claims on the review step
\* the trimmed texts of the pictures the button's OCR pass recognised with a
\* non-empty text, in the order of the calls
RerunTexts ==
    LET hits == SelectSeq(rv_calls, LAMBDA c : c.ret.ok /\ c.ret.text # <<>>)
    IN [k \in 1..Len(hits) |-> strip(hits[k].ret.text)]

====
